---- MODULE Spec2Model ----
(***************************************************************************)
(* Model of the route-precomputation pipeline of precompute_routes.py:     *)
(* main / process_trips / process_chunk / process_trip / get_osrm_route,   *)
(* the two files it writes (precomputed_routes_partial.json, the           *)
(* checkpoint, and precomputed_routes.json, the final output), abrupt      *)
(* termination of the process and a later rerun.                           *)
(*                                                                         *)
(* A second part models generate_interval_files of                         *)
(* generate_time_intervals.py, which cuts a routes file into one file of   *)
(* points per interval time.                                               *)
(*                                                                         *)
(* Times are whole seconds.  A coordinate list is modelled by its points   *)
(* as small integers; a Feature keeps tripId, times, duration, distance,    *)
(* average_speed and coordinates.                                          *)
(***************************************************************************)
EXTENDS Integers, Sequences, FiniteSets, TLC

(* ---- bounds of the model ---- *)
NumTrips == 3        \* rows of the trip table
MaxPoints == 3       \* longest coordinate list the routing service returns

(* ---- program constants, lines 12-14.  MAX_RETRIES (5 in the source) is
   scaled down; the retry loop is the same for every value. ---- *)
MAX_RETRIES == 2
INITIAL_WAIT == 1
MAX_WAIT == 120

(* ---- configurations, lines 15-16: CONCURRENT_REQUESTS (10 in the source)
   and CHUNK_SIZE (1000), scaled down ---- *)

(* chunks of two rows fetched side by side: the table takes several chunks *)
Configurations ==
    {[CONCURRENT_REQUESTS |-> 2, CHUNK_SIZE |-> 2]}

(* fewer slots than a chunk has rows, so that rows wait for a slot: chunks of
   two rows for one slot, chunks of three rows for two slots *)
SlotConfigurations ==
    {[CONCURRENT_REQUESTS |-> 1, CHUNK_SIZE |-> 2],
     [CONCURRENT_REQUESTS |-> 2, CHUNK_SIZE |-> 3]}

Trips == 1..NumTrips

(* the pickup columns of the model's trip tables: at most one row lacks its
   pickup coordinate *)
PickupTables ==
    {[t \in Trips |-> t # missing] : missing \in 0..NumTrips}

(* end_time_local - start_time_local in seconds: an empty trip, a trip of 5 s,
   an end before the start (the table is not validated) *)
Durations == <<0, 5, 0 - 3>>

(* the dropoff column of the model's trip table: the second row lacks its
   dropoff coordinate *)
DropoffTable == [t \in Trips |-> t # 2]

(* the time columns of the model's trip table: the rows take the durations
   in turn *)
DurationTable == [t \in Trips |-> Durations[((t - 1) % Len(Durations)) + 1]]

VARIABLES
    CONCURRENT_REQUESTS, \* configuration: the size of the semaphore
    CHUNK_SIZE,  \* configuration: the rows of a chunk
    pickup,      \* input table: pickup[t] = the pickup coordinate is present
    dropoff,     \* input table: dropoff[t] = the dropoff coordinate is present
    duration,    \* input table: end_time_local - start_time_local of trip t
    partial,     \* precomputed_routes_partial.json: Absent, Torn or a feature list
    final,       \* precomputed_routes.json: Absent, Torn or a feature list
    pc,          \* position of the main coroutine
    error,       \* what ended the current run, "none" while it runs
    features,    \* process_trips: the accumulated features list
    trips_data,  \* process_trips: the rows left after the resume filter
    chunk_num,   \* process_trips: i of the loop over chunks
    writes,      \* process_trips: checkpoint writes completed by this process
    task,        \* process_chunk: state of the process_trip task of each trip
    retry_count, \* get_osrm_route: retry_count of the current call of each task
    outcome,     \* how the fetch of each task of this chunk ended
    route_data,  \* process_trip: the value get_osrm_route returned to each task
    results,     \* process_chunk: return value of each task (<<>> is None)
    semaphore,   \* process_chunk: free slots of the asyncio.Semaphore
    url,         \* get_osrm_route: start and end of the url of each task's call
    slept,       \* get_osrm_route: seconds of the last asyncio.sleep of each task
    requested,   \* history: trips a request was issued for in this run
    loaded,      \* history: the features this run loaded from the checkpoint
    saved,       \* history: contents of the last completely written checkpoint
    saved_trips, \* history: trips of the chunks whose checkpoint was written
    routes,      \* generate_interval_files: the features of the input file
    slicer_pc,   \* generate_interval_files: position of the function
    current_time, \* generate_interval_files: the interval time of the loop
    time_intervals, \* the files of the directory time_intervals
    generated    \* history: the interval times the loop has gone through

vars == <<CONCURRENT_REQUESTS, CHUNK_SIZE, pickup, dropoff, duration, partial,
          final, pc, error, features, trips_data, chunk_num, writes, task,
          retry_count, outcome, route_data, results, semaphore, url, slept,
          requested, loaded, saved, saved_trips, routes, slicer_pc,
          current_time, time_intervals, generated>>

table == <<CONCURRENT_REQUESTS, CHUNK_SIZE, pickup, dropoff, duration>>
files == <<partial, final>>
chunkState == <<task, retry_count, outcome, route_data, results, semaphore,
                url, slept>>
history == <<requested, loaded, saved, saved_trips>>
slicer == <<routes, slicer_pc, current_time, time_intervals, generated>>

(* a file: absent, opened for writing and not yet written ("torn"), or a
   written FeatureCollection *)
Absent == [state |-> "absent", features |-> <<>>]
Torn == [state |-> "torn", features |-> <<>>]
Written(fs) == [state |-> "written", features |-> fs]

Min(a, b) == IF a < b THEN a ELSE b

Range(s) == {s[k] : k \in 1..Len(s)}

(* start_time_local of trip t, in seconds *)
start_time(t) == 100 * t

end_time(t) == start_time(t) + duration[t]

(* ---- get_osrm_route: the values it returns ---- *)

(* the pickup and dropoff coordinates passed to get_osrm_route *)
origin(t) == 10 * t
dropoff_location(t) == 10 * t + 1

(* lines 79-80 without the test for a missing dropoff *)
destination_unchecked(t) == dropoff_location(t)

(* lines 79-80: the dropoff, or the pickup when the dropoff is missing *)
destination(t) == IF dropoff[t] THEN dropoff_location(t) ELSE origin(t)

direct_line(t) == <<origin(t), destination(t)>>

(* the geometry of a route of n points answered by the routing service *)
service_coordinates(n) == [k \in 1..n |-> 1000 + k]

(* route["duration"] and route["distance"] of the answered route of n points:
   the routes with an even number of points take no time (6 s, 0 s, ...), every
   route has a length (10 m, 7 m, ...) *)
service_duration(n) == IF n % 2 = 0 THEN 0 ELSE 2 * n

service_distance(n) == 3 * n + 1

RECURSIVE GCD(_, _)
GCD(a, b) == IF b = 0 THEN a ELSE GCD(b, a % b)

(* the number a / b, as a fraction in lowest terms *)
Quotient(a, b) ==
    LET g == GCD(a, b)
    IN  IF g = 0 THEN [num |-> a, den |-> b]
        ELSE [num |-> a \div g, den |-> b \div g]

(* the number 0 *)
Zero == [num |-> 0, den |-> 1]

(* distance / duration whatever the duration is *)
average_speed_unguarded(route_distance, route_duration) ==
    Quotient(route_distance, route_duration)

(* line 42 *)
average_speed(route_distance, route_duration) ==
    IF route_duration > 0 THEN Quotient(route_distance, route_duration) ELSE Zero

(* lines 38-43: the dict built from a usable route *)
RouteDict(n) ==
    [type |-> "dict",
     coordinates |-> service_coordinates(n),
     duration |-> service_duration(n),
     distance |-> service_distance(n),
     average_speed |-> average_speed(service_distance(n), service_duration(n))]

(* a no-route answer that keeps the start point only *)
NoRouteDict_one_point(t) ==
    [type |-> "dict", coordinates |-> <<origin(t)>>,
     duration |-> 0, distance |-> 0, average_speed |-> Zero]

(* lines 46-51: the dict returned when the answer holds no usable route *)
NoRouteDict(t) ==
    [type |-> "dict", coordinates |-> direct_line(t),
     duration |-> 0, distance |-> 0, average_speed |-> Zero]

(* lines 58 and 65: a bare list of two points, not a dict; it has no
   duration, distance or average_speed, the fields below are never read *)
FallbackList(t) ==
    [type |-> "list", coordinates |-> direct_line(t),
     duration |-> 0, distance |-> 0, average_speed |-> Zero]

(* line 33 *)
NoneValue ==
    [type |-> "None", coordinates |-> <<>>,
     duration |-> 0, distance |-> 0, average_speed |-> Zero]

(* a wait that does not grow with the retries *)
wait_time_constant(retry) == Min(INITIAL_WAIT, MAX_WAIT)

(* wait_time of line 23 *)
wait_time(retry) == Min(INITIAL_WAIT * (2 ^ retry), MAX_WAIT)

(* ---- process_trip, lines 86-118: from route_data to the return value ---- *)

(* the interpolation dividing by the number of points *)
point_times_by_count(t, num_points) ==
    [k \in 1..num_points |->
        start_time(t) + ((duration[t] * (k - 1)) \div num_points)]

(* the loop of line 93 stopping one point early *)
point_times_short(t, num_points) ==
    [k \in 1..(num_points - 1) |->
        start_time(t) + ((duration[t] * (k - 1)) \div (num_points - 1))]

(* lines 91-95: one time per coordinate; strftime drops the sub-second part *)
point_times(t, num_points) ==
    [k \in 1..num_points |->
        start_time(t) + ((duration[t] * (k - 1)) \div (num_points - 1))]

Feature(t, route) ==
    [tripId |-> t,
     times |-> point_times(t, Len(route.coordinates)),
     duration |-> route.duration,
     distance |-> route.distance,
     average_speed |-> route.average_speed,
     coordinates |-> route.coordinates]

(* the exception process_trip raises on route_data, "none" if it returns *)
TripError(route) ==
    IF route.type = "None" THEN "none"              \* line 86: falsy
    ELSE IF route.type = "list" THEN "TypeError"    \* line 91: list["coordinates"]
    ELSE IF Len(route.coordinates) - 1 = 0
        THEN "ZeroDivisionError"                    \* line 94: i / 0
    ELSE "none"

(* the value process_trip returns: <<>> is None, <<f>> the feature f *)
TripValue(t, route) ==
    IF route.type = "None" \/ TripError(route) # "none"
        THEN <<>>
        ELSE <<Feature(t, route)>>

(* ---- process_trips, lines 138-150: resume filter and chunking ---- *)

(* the identifiers of the loaded features, the first one left out *)
processed_ids_but_first(fs) == {fs[k].tripId : k \in 2..Len(fs)}

(* line 138 *)
processed_ids(fs) == {fs[k].tripId : k \in 1..Len(fs)}

(* the rows of the trip table, in order *)
AllTrips == [k \in 1..NumTrips |-> k]

(* a resume that keeps every row *)
RemainingUnfiltered(fs) == AllTrips

(* line 140 *)
Remaining(fs) == SelectSeq(AllTrips, LAMBDA t : t \notin processed_ids(fs))

(* a count of chunks that forgets the last, shorter chunk *)
total_chunks_floor == Len(trips_data) \div CHUNK_SIZE

(* line 150 *)
total_chunks == (Len(trips_data) + CHUNK_SIZE - 1) \div CHUNK_SIZE

(* chunks that start one row early, on the last row of the chunk before *)
ChunkOverlapping(i) ==
    SubSeq(trips_data, IF i = 1 THEN 1 ELSE (i - 1) * CHUNK_SIZE,
           Min(i * CHUNK_SIZE, Len(trips_data)))

(* line 149: trips_data[i:i + CHUNK_SIZE] of the i-th chunk *)
Chunk(i) == SubSeq(trips_data, (i - 1) * CHUNK_SIZE + 1,
                   Min(i * CHUNK_SIZE, Len(trips_data)))

(* lines 123-126: the results in task order, None filtered out *)
RECURSIVE Gathered(_)
Gathered(chunk) ==
    IF chunk = <<>> THEN <<>>
    ELSE results[Head(chunk)] \o Gathered(Tail(chunk))

(* ---- the state of a process that is not running a chunk ---- *)
NoTasks ==
    /\ task = [t \in Trips |-> "none"]
    /\ retry_count = [t \in Trips |-> 0]
    /\ outcome = [t \in Trips |-> "none"]
    /\ route_data = [t \in Trips |-> NoneValue]
    /\ results = [t \in Trips |-> <<>>]
    /\ semaphore = CONCURRENT_REQUESTS
    /\ url = [t \in Trips |-> <<>>]
    /\ slept = [t \in Trips |-> 0]

(* the state when main starts on a trip table, under configuration cfg *)
Start(cfg) ==
    /\ CONCURRENT_REQUESTS = cfg.CONCURRENT_REQUESTS
    /\ CHUNK_SIZE = cfg.CHUNK_SIZE
    /\ pickup \in PickupTables
    /\ dropoff = DropoffTable
    /\ duration = DurationTable
    /\ partial = Absent
    /\ final = Absent
    /\ pc = "start"
    /\ error = "none"
    /\ features = <<>>
    /\ trips_data = AllTrips
    /\ chunk_num = 0
    /\ writes = 0
    /\ NoTasks
    /\ requested = {}
    /\ loaded = <<>>
    /\ saved = <<>>
    /\ saved_trips = {}

(* generate_interval_files is not called *)
SlicerIdle ==
    /\ routes = <<>>
    /\ slicer_pc = "idle"
    /\ current_time = 0
    /\ time_intervals = {}
    /\ generated = {}

Init == (\E cfg \in Configurations : Start(cfg)) /\ SlicerIdle

InitSlots == (\E cfg \in SlotConfigurations : Start(cfg)) /\ SlicerIdle

ResetTasks ==
    /\ task' = [t \in Trips |-> "none"]
    /\ retry_count' = [t \in Trips |-> 0]
    /\ outcome' = [t \in Trips |-> "none"]
    /\ route_data' = [t \in Trips |-> NoneValue]
    /\ results' = [t \in Trips |-> <<>>]
    /\ semaphore' = CONCURRENT_REQUESTS
    /\ url' = [t \in Trips |-> <<>>]
    /\ slept' = [t \in Trips |-> 0]

(* the process ends: its memory is gone, the files stay *)
ProcessEnds(exception) ==
    /\ pc' = "stopped"
    /\ error' = exception
    /\ features' = <<>>
    /\ trips_data' = AllTrips
    /\ chunk_num' = 0
    /\ writes' = 0
    /\ ResetTasks

(* ---- process_trips ---- *)

(* lines 131-152: load the checkpoint, filter the table, cut the chunks.
   json.load raises on a file that was opened for writing and never written. *)
LoadProgress ==
    /\ pc = "start"
    /\ IF partial.state = "torn"
          THEN /\ ProcessEnds("JSONDecodeError")
               /\ UNCHANGED loaded
          ELSE /\ features' = partial.features
               /\ loaded' = partial.features
               /\ trips_data' = Remaining(partial.features)
               /\ chunk_num' = 1
               /\ writes' = 0
               /\ pc' = IF Len(Remaining(partial.features)) > 0
                           THEN "chunk" ELSE "open_final"
               /\ UNCHANGED <<error, chunkState>>
    /\ UNCHANGED <<slicer, table, files, requested, saved, saved_trips>>

(* lines 121-123: process_chunk creates the semaphore and one task per row *)
StartChunk ==
    /\ pc = "chunk"
    /\ pc' = "gather"
    /\ task' = [t \in Trips |->
                   IF t \in Range(Chunk(chunk_num)) THEN "pending" ELSE "none"]
    /\ retry_count' = [t \in Trips |-> 0]
    /\ outcome' = [t \in Trips |-> "none"]
    /\ route_data' = [t \in Trips |-> NoneValue]
    /\ results' = [t \in Trips |-> <<>>]
    /\ semaphore' = CONCURRENT_REQUESTS
    /\ url' = [t \in Trips |-> <<>>]
    /\ slept' = [t \in Trips |-> 0]
    /\ UNCHANGED <<slicer, table, files, error, features, trips_data, chunk_num,
                   writes, history>>

(* ---- process_chunk: the process_trip tasks ---- *)

Exceptions == {"TypeError", "ZeroDivisionError"}

(* lines 86-118 and the exit of "async with semaphore": the task of trip t
   ends on route_data, by a return value or by an exception *)
TaskEnds(t, route, how) ==
    /\ task' = [task EXCEPT ![t] =
                   IF TripError(route) = "none" THEN "returned" ELSE TripError(route)]
    /\ route_data' = [route_data EXCEPT ![t] = route]
    /\ results' = [results EXCEPT ![t] = TripValue(t, route)]
    /\ outcome' = [outcome EXCEPT ![t] = how]
    /\ semaphore' = semaphore + 1
    /\ retry_count' = [retry_count EXCEPT ![t] = 0]
    /\ url' = [url EXCEPT ![t] = <<>>]
    /\ slept' = [slept EXCEPT ![t] = 0]

(* lines 29-32, 55-57, 62-64: sleep wait_time, then call again *)
Backoff(t) ==
    /\ task' = [task EXCEPT ![t] = "sleeping"]
    /\ slept' = [slept EXCEPT ![t] = wait_time(retry_count[t])]
    /\ UNCHANGED <<retry_count, outcome, route_data, results, semaphore, url>>

(* process_trip entering without waiting for a free slot *)
process_trip_unbounded(t) ==
    /\ pc = "gather"
    /\ task[t] = "pending"
    /\ IF ~pickup[t]
          THEN /\ task' = [task EXCEPT ![t] = "returned"]
               /\ outcome' = [outcome EXCEPT ![t] = "skipped"]
               /\ UNCHANGED <<retry_count, route_data, results, semaphore, url,
                              slept, requested>>
          ELSE /\ task' = [task EXCEPT ![t] = "requesting"]
               /\ semaphore' = semaphore - 1
               /\ url' = [url EXCEPT ![t] = <<origin(t), destination(t)>>]
               /\ requested' = requested \cup {t}
               /\ UNCHANGED <<retry_count, outcome, route_data, results, slept>>
    /\ UNCHANGED <<slicer, table, files, pc, error, features, trips_data,
                   chunk_num, writes, loaded, saved, saved_trips>>

(* lines 73-84: enter the semaphore; a row without pickup returns None at
   once, any other issues its first request *)
process_trip(t) ==
    /\ pc = "gather"
    /\ task[t] = "pending"
    /\ semaphore > 0
    /\ IF ~pickup[t]
          THEN /\ task' = [task EXCEPT ![t] = "returned"]
               /\ outcome' = [outcome EXCEPT ![t] = "skipped"]
               /\ UNCHANGED <<retry_count, route_data, results, semaphore, url,
                              slept, requested>>
          ELSE /\ task' = [task EXCEPT ![t] = "requesting"]
               /\ semaphore' = semaphore - 1
               /\ url' = [url EXCEPT ![t] = <<origin(t), destination(t)>>]
               /\ requested' = requested \cup {t}
               /\ UNCHANGED <<retry_count, outcome, route_data, results, slept>>
    /\ UNCHANGED <<slicer, table, files, pc, error, features, trips_data,
                   chunk_num, writes, loaded, saved, saved_trips>>

(* a status 429 that gives the trip up at once, whatever retry_count is *)
RateLimited_no_retry(t) ==
    /\ pc = "gather"
    /\ task[t] = "requesting"
    /\ TaskEnds(t, NoneValue, "dropped")
    /\ UNCHANGED <<slicer, table, files, pc, error, features, trips_data, chunk_num,
                   writes, history>>

(* lines 28-33: status 429 *)
RateLimited(t) ==
    /\ pc = "gather"
    /\ task[t] = "requesting"
    /\ IF retry_count[t] < MAX_RETRIES
          THEN Backoff(t)
          ELSE TaskEnds(t, NoneValue, "dropped")
    /\ UNCHANGED <<slicer, table, files, pc, error, features, trips_data, chunk_num,
                   writes, history>>

(* lines 35-43: an answer with a route of n >= 1 coordinates *)
RouteFound(t, n) ==
    /\ pc = "gather"
    /\ task[t] = "requesting"
    /\ TaskEnds(t, RouteDict(n), "succeeded")
    /\ UNCHANGED <<slicer, table, files, pc, error, features, trips_data, chunk_num,
                   writes, history>>

(* lines 36, 45-51: code not Ok, no routes or no coordinates *)
NoRoute(t) ==
    /\ pc = "gather"
    /\ task[t] = "requesting"
    /\ TaskEnds(t, NoRouteDict(t), "no_route")
    /\ UNCHANGED <<slicer, table, files, pc, error, features, trips_data, chunk_num,
                   writes, history>>

(* lines 53-58: asyncio.TimeoutError *)
RequestTimeout(t) ==
    /\ pc = "gather"
    /\ task[t] = "requesting"
    /\ IF retry_count[t] < MAX_RETRIES
          THEN Backoff(t)
          ELSE TaskEnds(t, FallbackList(t), "fallback")
    /\ UNCHANGED <<slicer, table, files, pc, error, features, trips_data, chunk_num,
                   writes, history>>

(* lines 60-65: any other exception of the request *)
RequestError(t) ==
    /\ pc = "gather"
    /\ task[t] = "requesting"
    /\ IF retry_count[t] < MAX_RETRIES
          THEN Backoff(t)
          ELSE TaskEnds(t, FallbackList(t), "fallback")
    /\ UNCHANGED <<slicer, table, files, pc, error, features, trips_data, chunk_num,
                   writes, history>>

(* a retry that calls get_osrm_route again with the same retry_count *)
Retry_same_count(t) ==
    /\ pc = "gather"
    /\ task[t] = "sleeping"
    /\ task' = [task EXCEPT ![t] = "requesting"]
    /\ UNCHANGED <<slicer, table, files, pc, error, features, trips_data,
                   chunk_num, writes, retry_count, outcome, route_data, results,
                   semaphore, url, slept, history>>

(* lines 32, 57, 64: the sleep is over, get_osrm_route(..., retry_count + 1) *)
Retry(t) ==
    /\ pc = "gather"
    /\ task[t] = "sleeping"
    /\ task' = [task EXCEPT ![t] = "requesting"]
    /\ retry_count' = [retry_count EXCEPT ![t] = retry_count[t] + 1]
    /\ UNCHANGED <<slicer, table, files, pc, error, features, trips_data,
                   chunk_num, writes, outcome, route_data, results, semaphore,
                   url, slept, history>>

(* line 123: gather without return_exceptions raises the exception of a task;
   nothing catches it up to asyncio.run *)
GatherRaises ==
    /\ pc = "gather"
    /\ \E t \in Trips :
          /\ task[t] \in Exceptions
          /\ ProcessEnds(task[t])
    /\ UNCHANGED <<slicer, table, files, history>>

(* a loop that goes on to the next chunk without saving the checkpoint *)
ChunkDone_unsaved ==
    /\ pc = "gather"
    /\ \A t \in Range(Chunk(chunk_num)) : task[t] = "returned"
    /\ features' = features \o Gathered(Chunk(chunk_num))
    /\ pc' = IF chunk_num < total_chunks THEN "sleep" ELSE "open_final"
    /\ ResetTasks
    /\ UNCHANGED <<slicer, table, files, error, trips_data, chunk_num, writes, history>>

(* a gather that returns as soon as one task has returned *)
ChunkDone_first_returned ==
    /\ pc = "gather"
    /\ \E t \in Range(Chunk(chunk_num)) : task[t] = "returned"
    /\ features' = features \o Gathered(Chunk(chunk_num))
    /\ pc' = "open_partial"
    /\ ResetTasks
    /\ UNCHANGED <<slicer, table, files, error, trips_data, chunk_num, writes, history>>

(* lines 123-127 and 155-156: every task returned; features.extend *)
ChunkDone ==
    /\ pc = "gather"
    /\ \A t \in Range(Chunk(chunk_num)) : task[t] = "returned"
    /\ features' = features \o Gathered(Chunk(chunk_num))
    /\ pc' = "open_partial"
    /\ ResetTasks
    /\ UNCHANGED <<slicer, table, files, error, trips_data, chunk_num, writes, history>>

(* line 163: open(..., "w") truncates the checkpoint *)
OpenPartial ==
    /\ pc = "open_partial"
    /\ partial' = Torn
    /\ pc' = "dump_partial"
    /\ UNCHANGED <<slicer, table, final, error, features, trips_data, chunk_num, writes,
                   chunkState, history>>

(* lines 164-165: json.dump and close *)
DumpPartial ==
    /\ pc = "dump_partial"
    /\ partial' = Written(features)
    /\ saved' = features
    /\ writes' = writes + 1
    /\ saved_trips' = saved_trips \cup Range(Chunk(chunk_num))
    /\ pc' = IF chunk_num < total_chunks THEN "sleep" ELSE "open_final"
    /\ UNCHANGED <<slicer, table, final, error, features, trips_data, chunk_num,
                   chunkState, requested, loaded>>

(* lines 168-169 and the next turn of the loop of line 154 *)
ChunkDelay ==
    /\ pc = "sleep"
    /\ chunk_num' = chunk_num + 1
    /\ pc' = "chunk"
    /\ UNCHANGED <<slicer, table, files, error, features, trips_data, writes,
                   chunkState, history>>

(* ---- main ---- *)

(* line 190: open(..., "w") *)
OpenFinal ==
    /\ pc = "open_final"
    /\ final' = Torn
    /\ pc' = "dump_final"
    /\ UNCHANGED <<slicer, table, partial, error, features, trips_data,
                   chunk_num, writes, chunkState, history>>

(* line 191 *)
DumpFinal ==
    /\ pc = "dump_final"
    /\ final' = Written(features)
    /\ pc' = "cleanup"
    /\ UNCHANGED <<slicer, table, partial, error, features, trips_data,
                   chunk_num, writes, chunkState, history>>

(* lines 194-197 *)
RemovePartial ==
    /\ pc = "cleanup"
    /\ partial' = Absent
    /\ pc' = "done"
    /\ UNCHANGED <<slicer, table, final, error, features, trips_data, chunk_num, writes,
                   chunkState, history>>

(* ---- the environment ---- *)

(* the process is terminated abruptly *)
Kill ==
    /\ pc \notin {"stopped", "done"}
    /\ ProcessEnds("killed")
    /\ UNCHANGED <<slicer, table, files, history>>

(* the program is run again: asyncio.run(main()) of line 200 *)
Rerun ==
    /\ pc = "stopped"
    /\ pc' = "start"
    /\ error' = "none"
    /\ requested' = {}
    /\ loaded' = <<>>
    /\ UNCHANGED <<slicer, table, files, features, trips_data, chunk_num,
                   writes, chunkState, saved, saved_trips>>

(* the steps of the program and its reruns *)
Run ==
    \/ LoadProgress
    \/ StartChunk
    \/ \E t \in Trips : process_trip(t)
    \/ \E t \in Trips : RateLimited(t)
    \/ \E t \in Trips : \E n \in 1..MaxPoints : RouteFound(t, n)
    \/ \E t \in Trips : NoRoute(t)
    \/ \E t \in Trips : RequestTimeout(t)
    \/ \E t \in Trips : RequestError(t)
    \/ \E t \in Trips : Retry(t)
    \/ GatherRaises
    \/ ChunkDone
    \/ OpenPartial
    \/ DumpPartial
    \/ ChunkDelay
    \/ OpenFinal
    \/ DumpFinal
    \/ RemovePartial
    \/ Rerun

Next == Run \/ Kill

(* the program, terminated abruptly at any point and run again *)
Spec == Init /\ [][Next]_vars

(* the program with fewer slots than rows, never terminated from outside: a
   run ends by itself, done or on an exception, and is run again *)
SpecSlots == InitSlots /\ [][Run]_vars

(* the program never terminated from outside, with the scheduling of the
   event loop: a step that can be taken is taken.  Every request ends, by an
   answer or by the ClientTimeout of line 25; every asyncio.sleep ends; a
   task that is ready is run. *)
FairRun == Init /\ [][Run]_vars /\ WF_vars(Run)

(* ============ generate_time_intervals.py: generate_interval_files ============ *)

(* In this part a time is a number of half minutes since the full hour. *)

(* timedelta(minutes=1), lines 69 and 105 *)
Minute == 2

(* the parameter interval_minutes of line 9 (60 by default), scaled down *)
interval_minutes == 2

(* the latest timestamp of the input files of the model *)
MaxTime == 9

(* line 46 *)
interval_delta == interval_minutes * Minute

Abs(x) == IF x < 0 THEN 0 - x ELSE x

(* a route of the input file: a Feature as process_trip writes it, n points
   with times spread evenly by point index from first to last; the slicer
   reads its tripId, times and coordinates *)
InputRoute(id, shape) ==
    [tripId |-> id,
     times |-> [k \in 1..shape.n |->
                  shape.first
                      + (((shape.last - shape.first) * (k - 1)) \div (shape.n - 1))],
     coordinates |-> [k \in 1..shape.n |-> 100 * id + k]]

RouteShapes ==
    {sh \in [first : 0..MaxTime, last : 0..MaxTime, n : 2..MaxPoints] :
        sh.first <= sh.last}

(* the input files of the model: two routes *)
RouteFiles ==
    {<<InputRoute(1, sh1), InputRoute(2, sh2)>> : sh1, sh2 \in RouteShapes}

(* lines 31-37: all_timestamps, min and max *)
all_timestamps(fs) == UNION {Range(fs[k].times) : k \in 1..Len(fs)}

min_timestamp(fs) ==
    CHOOSE x \in all_timestamps(fs) : \A y \in all_timestamps(fs) : x <= y

max_timestamp(fs) ==
    CHOOSE x \in all_timestamps(fs) : \A y \in all_timestamps(fs) : x >= y

(* lines 40-42: the minute rounded down to a multiple of interval_minutes,
   second 0 *)
rounded_start(time) ==
    (((time \div Minute) \div interval_minutes) * interval_minutes) * Minute

(* lines 70-76, 93-99, 106-112: a point of an interval file *)
Point(feature, k, point_type) ==
    [route_id |-> feature.tripId,
     coordinates |-> feature.coordinates[k],
     timestamp |-> feature.times[k],
     point_type |-> point_type]

(* lines 64-78: only the last point of the route can match *)
interval_end(feature, time) ==
    LET last_idx == Len(feature.times)
    IN  IF Abs(feature.times[last_idx] - time) < Minute
            THEN <<Point(feature, last_idx, "interval_end")>>
            ELSE <<>>

(* lines 86-99: the loop over the points from point k on; best is the index
   of closest_point (0 is None) *)
RECURSIVE closest_point(_, _, _, _, _)
closest_point(feature, time, k, best, min_time_diff) ==
    IF k > Len(feature.times) THEN best
    ELSE IF Abs(feature.times[k] - time) < min_time_diff
        THEN closest_point(feature, time, k + 1, k, Abs(feature.times[k] - time))
        ELSE closest_point(feature, time, k + 1, best, min_time_diff)

(* lines 84-102 *)
ongoing(feature, time) ==
    LET first_timestamp == feature.times[1]
        last_timestamp == feature.times[Len(feature.times)]
        best == closest_point(feature, time, 1, 0, interval_delta)
    IN  IF first_timestamp < time /\ time < last_timestamp /\ best # 0
            THEN <<Point(feature, best, "ongoing")>>
            ELSE <<>>

(* lines 81 and 105-113 *)
previous_end(feature, time) ==
    LET last_idx == Len(feature.times)
        last_timestamp == feature.times[last_idx]
        interval_start == time - interval_delta
    IN  IF interval_start < last_timestamp /\ last_timestamp < time - Minute
            THEN <<Point(feature, last_idx, "previous_end")>>
            ELSE <<>>

(* lines 54-113: the points of the features fs, in the order of the appends *)
RECURSIVE interval_points(_, _)
interval_points(fs, time) ==
    IF fs = <<>> THEN <<>>
    ELSE interval_end(Head(fs), time) \o ongoing(Head(fs), time)
            \o previous_end(Head(fs), time) \o interval_points(Tail(fs), time)

(* the state of the pipeline while the slicer runs: not started *)
pipeline == <<table, files, pc, error, features, trips_data, chunk_num, writes,
              chunkState, history>>

(* generate_interval_files is called on an input file *)
InitIntervals ==
    /\ \E cfg \in Configurations : Start(cfg)
    /\ pickup = [t \in Trips |-> TRUE]
    /\ routes \in RouteFiles
    /\ slicer_pc = "call"
    /\ current_time = 0
    /\ time_intervals = {}
    /\ generated = {}

(* lines 27-46: read the file, find the time range, round the start down *)
ReadRoutes ==
    /\ slicer_pc = "call"
    /\ current_time' = rounded_start(min_timestamp(routes))
    /\ slicer_pc' = "while"
    /\ UNCHANGED <<pipeline, routes, time_intervals, generated>>

(* lines 50-147: one turn of the loop; the file is written if it has points *)
WriteInterval ==
    /\ slicer_pc = "while"
    /\ current_time <= max_timestamp(routes)
    /\ time_intervals' =
          IF interval_points(routes, current_time) # <<>>
              THEN time_intervals \cup
                      {[time |-> current_time,
                        features |-> interval_points(routes, current_time)]}
              ELSE time_intervals
    /\ generated' = generated \cup {current_time}
    /\ current_time' = current_time + interval_delta
    /\ UNCHANGED <<pipeline, routes, slicer_pc>>

(* line 50: the loop ends *)
Return ==
    /\ slicer_pc = "while"
    /\ current_time > max_timestamp(routes)
    /\ slicer_pc' = "returned"
    /\ UNCHANGED <<pipeline, routes, current_time, time_intervals, generated>>

NextIntervals == ReadRoutes \/ WriteInterval \/ Return

(* generate_interval_files on the input files of the model *)
SpecIntervals == InitIntervals /\ [][NextIntervals]_vars

TypeOK ==
    /\ pc \in {"start", "chunk", "gather", "open_partial", "dump_partial", "sleep",
               "open_final", "dump_final", "cleanup", "done", "stopped"}
    /\ semaphore \in 0..CONCURRENT_REQUESTS
    /\ CONCURRENT_REQUESTS \in 1..CHUNK_SIZE
    /\ \A t \in Trips : retry_count[t] \in 0..MAX_RETRIES

(* ======================= the claims ======================= *)

TripIds(fs) == {fs[k].tripId : k \in 1..Len(fs)}

IsPrefix(s1, s2) == Len(s1) <= Len(s2) /\ SubSeq(s2, 1, Len(s1)) = s1

(* the trips with an outstanding fetch: a request in flight or a backoff sleep *)
Outstanding == {t \in Trips : task[t] \in {"requesting", "sleeping"}}

(* the Feature of the degenerate straight line of trip t *)
LineFeature(t) ==
    [tripId |-> t,
     times |-> <<start_time(t), end_time(t)>>,
     duration |-> 0,
     distance |-> 0,
     average_speed |-> Zero,
     coordinates |-> <<origin(t), destination(t)>>]

(* C1: a trip whose fetch exhausts its retries on timeouts or transport
   errors resolves to the straight line origin -> destination, and its task
   returns exactly one Feature for it. *)
C1_FallbackYieldsFeature ==
    \A t \in Trips :
        outcome[t] = "fallback" =>
            /\ task[t] = "returned"
            /\ results[t] = <<LineFeature(t)>>

(* C2: no error of a single trip propagates out of process_chunk and ends
   the run. *)
C2_NoTripErrorEndsRun ==
    error \notin Exceptions

(* C3: at most CONCURRENT_REQUESTS trips have an outstanding fetch, and every
   outstanding fetch holds one slot of the semaphore, so that a trip can
   start only when a slot is free. *)
C3_BoundedOutstanding ==
    /\ Cardinality(Outstanding) <= CONCURRENT_REQUESTS
    /\ semaphore >= 0
    /\ pc = "gather" =>
          semaphore + Cardinality(Outstanding) = CONCURRENT_REQUESTS

(* both slots are taken, one of them by a trip in its backoff sleep, and a
   third trip with a pickup coordinate waits *)
C3_Witness ==
    /\ CONCURRENT_REQUESTS = 2
    /\ Cardinality(Outstanding) = 2
    /\ semaphore = 0
    /\ \E t, u \in Trips :
          /\ task[t] = "sleeping"
          /\ task[u] = "pending"
          /\ pickup[u]

(* C4: a run that loaded a checkpoint issues no request for a trip that has a
   Feature in it, and the loaded Features stay, unchanged and in place, in the
   accumulated list, in every checkpoint written later and in the final
   output of the run. *)
C4_ResumeSkipsLoaded ==
    /\ requested \cap TripIds(loaded) = {}
    /\ pc \notin {"start", "stopped"} => IsPrefix(loaded, features)
    /\ partial.state = "written" => IsPrefix(loaded, partial.features)
    /\ pc \in {"cleanup", "done"} =>
          final.state = "written" /\ IsPrefix(loaded, final.features)

(* checkpoint ids {1, 2}, trip set {1, 2, 3}: only 3 was fetched *)
C4_Witness ==
    /\ pc = "done"
    /\ TripIds(loaded) = {1, 2}
    /\ requested = {3}
    /\ Len(final.features) = 3

(* C5: after an abrupt termination, the load of the next run recovers every
   Feature of the last checkpoint that had been saved. *)
C5_CrashLossBound ==
    /\ error = "JSONDecodeError" => saved = <<>>
    /\ pc \notin {"start", "stopped"} => IsPrefix(saved, features)

(* C6: no request is issued for a trip of a chunk whose checkpoint has been
   saved, whatever the outcome of the trip was. *)
C6_NoRefetchOfSavedChunks ==
    [][\A t \in Trips : t \in requested' \ requested => t \notin saved_trips]_vars

(* C6, amended: no request is issued for a trip that has a Feature in the
   last saved checkpoint, nor for a trip without pickup coordinate. *)
C6_NoRefetchOfSavedFeatures ==
    [][\A t \in Trips :
          t \in requested' \ requested => pickup[t] /\ t \notin TripIds(saved)]_vars

(* a rerun loaded a checkpoint and fetches again a trip of a saved chunk, one
   that had been dropped *)
C6_Witness ==
    /\ pc = "gather"
    /\ chunk_num = 1
    /\ loaded # <<>>
    /\ loaded = saved
    /\ requested \cap saved_trips # {}

(* the Feature lists of the program: the accumulated list and the two files *)
FeatureLists == {features, partial.features, final.features}

(* the Features of the lists and of the tasks that returned one *)
AllFeatures ==
    UNION {Range(fs) : fs \in FeatureLists}
        \cup UNION {Range(results[t]) : t \in Trips}

Unique(fs) ==
    \A i, j \in 1..Len(fs) : fs[i].tripId = fs[j].tripId => i = j

(* C7: in every checkpoint, in the final output and in the accumulated list
   the trip identifiers are unique: a trip has at most one Feature. *)
C7_UniqueTripIds ==
    \A fs \in FeatureLists : Unique(fs)

(* a checkpoint written by a rerun that holds a Feature of every trip, part
   of them loaded and part of them new *)
C7_Witness ==
    /\ partial.state = "written"
    /\ TripIds(partial.features) = Trips
    /\ loaded # <<>>
    /\ requested # {}

(* C8: every Feature has as many times as coordinates, and at least one. *)
C8_TimesMatchCoordinates ==
    \A f \in AllFeatures :
        /\ Len(f.times) = Len(f.coordinates)
        /\ Len(f.times) >= 1

(* a checkpoint that holds a route of the service of three points and a
   degenerate straight line *)
C8_Witness ==
    /\ partial.state = "written"
    /\ \E f, g \in Range(partial.features) :
          /\ f.coordinates = service_coordinates(3)
          /\ g.coordinates = direct_line(g.tripId)

NonDecreasing(s) == \A k \in 1..(Len(s) - 1) : s[k] <= s[k + 1]
NonIncreasing(s) == \A k \in 1..(Len(s) - 1) : s[k] >= s[k + 1]

(* times[k] is start + (end - start) * (k - 1) / (n - 1), cut to the second *)
Interpolated(f) ==
    LET n == Len(f.times)
        d == end_time(f.tripId) - start_time(f.tripId)
    IN  \A k \in 1..n :
            LET e == f.times[k] - start_time(f.tripId)
            IN  /\ e * (n - 1) <= d * (k - 1)
                /\ d * (k - 1) < (e + 1) * (n - 1)

EndPoints(f) ==
    /\ f.times[1] = start_time(f.tripId)
    /\ f.times[Len(f.times)] = end_time(f.tripId)

(* C9: the times of every Feature are non-decreasing, start at the start time
   of the trip, end at its end time and are interpolated by point index. *)
C9_TimesNonDecreasing ==
    \A f \in AllFeatures :
        NonDecreasing(f.times) /\ EndPoints(f) /\ Interpolated(f)

(* C9, amended: the times of every Feature start at the start time of the
   trip, end at its end time, are interpolated by point index and cut to the
   second, and run in the direction of the trip: non-decreasing when the end
   is not before the start, non-increasing when it is. *)
C9_TimesInterpolated ==
    \A f \in AllFeatures :
        /\ EndPoints(f)
        /\ Interpolated(f)
        /\ end_time(f.tripId) >= start_time(f.tripId) => NonDecreasing(f.times)
        /\ end_time(f.tripId) <= start_time(f.tripId) => NonIncreasing(f.times)

(* the final output holds routes of three points of a trip of 5 s, whose
   middle time is cut from 2.5 s to 2 s, and of a trip that ends before it
   starts *)
C9_Witness ==
    /\ final.state = "written"
    /\ \E f, g \in Range(final.features) :
          /\ duration[f.tripId] = 5
          /\ f.times = <<start_time(f.tripId), start_time(f.tripId) + 2,
                         start_time(f.tripId) + 5>>
          /\ duration[g.tripId] < 0
          /\ Len(g.times) = 3

(* C10: a route of exactly one coordinate gives the trip a Feature with the
   single time start_time, without error. *)
C10_SinglePointFeature ==
    \A t \in Trips :
        (route_data[t].type = "dict" /\ Len(route_data[t].coordinates) = 1) =>
            /\ task[t] = "returned"
            /\ results[t] = <<[tripId |-> t,
                               times |-> <<start_time(t)>>,
                               duration |-> route_data[t].duration,
                               distance |-> route_data[t].distance,
                               average_speed |-> route_data[t].average_speed,
                               coordinates |-> route_data[t].coordinates]>>

(* C11: a trip is given up on status 429 only when its attempt counter has
   reached MAX_RETRIES; it is then Dropped: its task returns None, without
   error, the tasks and results of the other trips are untouched, and when
   the chunk is gathered the Features of the other trips are appended and none
   for the dropped trip. *)
C11_RateLimitDrops ==
    [][\A t \in Trips :
          /\ (outcome'[t] = "dropped" /\ outcome[t] # "dropped") =>
                /\ retry_count[t] = MAX_RETRIES
                /\ task'[t] = "returned"
                /\ results'[t] = <<>>
                /\ error' = "none"
                /\ \A u \in Trips \ {t} :
                      task'[u] = task[u] /\ results'[u] = results[u]
          /\ (outcome[t] = "dropped" /\ pc = "gather" /\ pc' = "open_partial") =>
                /\ t \notin TripIds(features')
                /\ \A u \in Trips :
                      results[u] # <<>> => results[u][1] \in Range(features')]_vars

(* a trip was dropped after MAX_RETRIES retries and another trip of the same
   chunk returned its Feature *)
C11_Witness ==
    /\ pc = "gather"
    /\ \E t, u \in Trips :
          /\ outcome[t] = "dropped"
          /\ task[t] = "returned"
          /\ outcome[u] = "succeeded"
          /\ results[u] # <<>>

(* C12: the first request of a fetch has attempt counter 0, every retry adds
   exactly one to it, whatever failure caused it, a retry is made only while
   the counter is below MAX_RETRIES, so the counter never exceeds MAX_RETRIES
   (at most MAX_RETRIES + 1 requests), and every fetch ends: with an outcome,
   or with the run. *)
C12_BoundedRetries ==
    /\ [](\A t \in Trips : retry_count[t] <= MAX_RETRIES)
    /\ [][\A t \in Trips :
             /\ (task[t] = "pending" /\ task'[t] = "requesting") =>
                   retry_count'[t] = 0
             /\ (task[t] = "requesting" /\ task'[t] = "sleeping") =>
                   retry_count[t] < MAX_RETRIES /\ retry_count'[t] = retry_count[t]
             /\ (task[t] = "sleeping" /\ task'[t] = "requesting") =>
                   retry_count'[t] = retry_count[t] + 1
             /\ (task[t] = "requesting" /\ task'[t] = "requesting") =>
                   retry_count'[t] = retry_count[t]]_vars
    /\ \A t \in Trips :
          (t \in Outstanding) ~> (outcome[t] # "none" \/ pc = "stopped")

(* the last request MAX_RETRIES + 1 of a fetch is in flight *)
C12_Witness ==
    \E t \in Trips : task[t] = "requesting" /\ retry_count[t] = MAX_RETRIES

(* C13: the sleep before the retry of a request with attempt counter k lasts
   exactly min(INITIAL_WAIT * 2^k, MAX_WAIT), whatever failure caused the
   retry; the sleeps of one fetch never get shorter and never exceed
   MAX_WAIT. *)
C13_BackoffSchedule ==
    [][\A t \in Trips :
          (task[t] = "requesting" /\ task'[t] = "sleeping") =>
             /\ slept'[t] = IF INITIAL_WAIT * (2 ^ retry_count[t]) < MAX_WAIT
                                THEN INITIAL_WAIT * (2 ^ retry_count[t])
                                ELSE MAX_WAIT
             /\ slept'[t] >= slept[t]
             /\ slept'[t] <= MAX_WAIT]_vars

(* the second sleep of a fetch, twice as long as the first *)
C13_Witness ==
    \E t \in Trips :
        /\ task[t] = "sleeping"
        /\ retry_count[t] = 1
        /\ slept[t] = 2 * INITIAL_WAIT

(* ceil(r / s) *)
Ceil(r, s) == (r + s - 1) \div s

(* the rows of the table without a Feature in the checkpoint this run loaded *)
RemainingCount == Cardinality(Trips \ TripIds(loaded))

(* C14: while chunk i is fetched and until its checkpoint is written the run
   has written i - 1 checkpoints, and i once it is written; the final output
   is opened only after ceil(R / CHUNK_SIZE) checkpoint writes, R the number
   of remaining trips; a run that is done leaves its final output and no
   checkpoint file. *)
C14_CheckpointCadence ==
    /\ pc \in {"chunk", "gather", "open_partial", "dump_partial"} =>
          writes = chunk_num - 1
    /\ pc = "sleep" => writes = chunk_num /\ partial = Written(features)
    /\ pc \in {"open_final", "dump_final", "cleanup", "done"} =>
          writes = Ceil(RemainingCount, CHUNK_SIZE)
    /\ pc \in {"chunk", "gather", "open_partial", "dump_partial", "sleep"} =>
          writes < Ceil(RemainingCount, CHUNK_SIZE)
    /\ pc = "done" => partial.state = "absent" /\ final = Written(features)

(* a run over three rows in chunks of two is done after two checkpoint
   writes *)
C14_Witness ==
    /\ pc = "done"
    /\ CHUNK_SIZE = 2
    /\ RemainingCount = 3
    /\ writes = 2
    /\ partial.state = "absent"

(* the rows of the chunks before chunk i, and of chunk i *)
RowsBefore(i) ==
    {trips_data[k] : k \in 1..Min((i - 1) * CHUNK_SIZE, Len(trips_data))}

RowsOf(i) ==
    {trips_data[k] :
        k \in ((i - 1) * CHUNK_SIZE + 1)..Min(i * CHUNK_SIZE, Len(trips_data))}

(* C15: whenever a fetch is outstanding it is for a row of the current chunk
   i; no task of an earlier chunk exists any more, the i - 1 earlier chunks
   have each had their checkpoint written, and the checkpoint file holds the
   accumulated Features of all of them. *)
C15_ChunksSequential ==
    \A t \in Outstanding :
        /\ pc = "gather"
        /\ t \in RowsOf(chunk_num)
        /\ \A u \in Trips \ RowsOf(chunk_num) : task[u] = "none"
        /\ RowsBefore(chunk_num) \subseteq saved_trips
        /\ writes = chunk_num - 1
        /\ chunk_num > 1 => partial = Written(features)

(* a fetch of the second chunk is outstanding; the first chunk left a Feature
   in the checkpoint *)
C15_Witness ==
    /\ chunk_num = 2
    /\ Outstanding # {}
    /\ partial.state = "written"
    /\ TripIds(partial.features) \cap RowsBefore(2) # {}

(* C16: a row without pickup coordinate is never requested, its task returns
   None without raising, and no Feature list holds a Feature of it; the
   request of a row with pickup and without dropoff goes from the pickup to
   the pickup. *)
C16_MissingCoordinates ==
    \A t \in Trips :
        /\ ~pickup[t] =>
              /\ t \notin requested
              /\ url[t] = <<>>
              /\ task[t] \in {"none", "pending", "returned"}
              /\ results[t] = <<>>
              /\ \A fs \in FeatureLists : t \notin TripIds(fs)
        /\ (pickup[t] /\ ~dropoff[t] /\ t \in Outstanding) =>
              /\ t \in requested
              /\ url[t] = <<origin(t), origin(t)>>
        /\ (pickup[t] /\ dropoff[t] /\ t \in Outstanding) =>
              url[t] = <<origin(t), dropoff_location(t)>>

(* the task of a row without pickup has returned None while a row of the same
   chunk, with pickup and without dropoff, is being requested *)
C16_Witness ==
    \E t, u \in Trips :
        /\ ~pickup[t]
        /\ outcome[t] = "skipped"
        /\ task[t] = "returned"
        /\ pickup[u] /\ ~dropoff[u]
        /\ task[u] = "requesting"

(* C17: an answer without usable route ends the fetch at that request, with
   the dict of the two points origin, destination, duration 0, distance 0 and
   average speed 0, and the task returns one Feature of the trip with that
   geometry and these values. *)
C17_NoRouteLine ==
    /\ [](\A t \in Trips :
            outcome[t] = "no_route" =>
               /\ route_data[t].type = "dict"
               /\ route_data[t].coordinates = <<origin(t), destination(t)>>
               /\ route_data[t].duration = 0
               /\ route_data[t].distance = 0
               /\ route_data[t].average_speed = Zero
               /\ task[t] = "returned"
               /\ results[t] = <<LineFeature(t)>>)
    /\ [][\A t \in Trips :
             (outcome[t] # "no_route" /\ outcome'[t] = "no_route") =>
                 task[t] = "requesting"]_vars

(* the no-route line of a row without dropoff, from the pickup to the pickup,
   next to the one of a row with dropoff *)
C17_Witness ==
    \E t, u \in Trips :
        /\ outcome[t] = "no_route" /\ ~dropoff[t]
        /\ outcome[u] = "no_route" /\ dropoff[u]
        /\ results[t] # <<>> /\ results[u] # <<>>

(* the value of a route dict or a Feature has a speed that is a number *)
SpeedDefined(r) == r.average_speed.den > 0

(* C18: every Feature, and every dict get_osrm_route returns, with duration 0
   has average speed 0, any other has average speed distance / duration; the
   speed is always a number, no division by zero occurs. *)
C18_AverageSpeed ==
    /\ \A f \in AllFeatures :
          /\ SpeedDefined(f)
          /\ f.duration = 0 => f.average_speed = Zero
          /\ f.duration # 0 =>
                f.average_speed.num * f.duration = f.distance * f.average_speed.den
    /\ \A t \in Trips :
          route_data[t].type = "dict" =>
             /\ SpeedDefined(route_data[t])
             /\ route_data[t].duration = 0 => route_data[t].average_speed = Zero

(* the final output holds a route of 7 m in 0 s, with speed 0, and a route of
   10 m in 6 s, with speed 5/3 *)
C18_Witness ==
    /\ final.state = "written"
    /\ \E f, g \in Range(final.features) :
          /\ f.duration = 0 /\ f.distance > 0 /\ f.average_speed = Zero
          /\ g.duration = 6 /\ g.distance = 10
          /\ g.average_speed = [num |-> 5, den |-> 3]

(* the points of the file written for the interval time T *)
PointsAt(T) == UNION {Range(f.features) : f \in {g \in time_intervals : g.time = T}}

(* the file for T holds the terminal point of route r as an end point *)
EndPointIn(r, T) ==
    \E p \in PointsAt(T) :
        /\ p.route_id = r.tripId
        /\ p.coordinates = r.coordinates[Len(r.coordinates)]
        /\ p.timestamp = r.times[Len(r.times)]
        /\ p.point_type \in {"interval_end", "previous_end"}

(* C19: for every interval time T the loop has gone through and every route
   whose last timestamp lies in the interval ending at T
   (T - interval < last <= T), the file for T holds the terminal point of the
   route, tagged interval_end or previous_end; so every route that ends in
   one of these intervals has its end point in some file. *)
C19_EndPointInFile ==
    \A T \in generated :
        \A k \in 1..Len(routes) :
            LET last == routes[k].times[Len(routes[k].times)]
            IN  (T - interval_delta < last /\ last <= T) => EndPointIn(routes[k], T)

(* the indexes of the points tagged ongoing of route r in the point list ps *)
OngoingOf(r, ps) ==
    {i \in 1..Len(ps) : ps[i].route_id = r.tripId /\ ps[i].point_type = "ongoing"}

(* p is a point of route r with a timestamp closest to T *)
ClosestTo(p, r, T) ==
    \E j \in 1..Len(r.times) :
        /\ p.timestamp = r.times[j]
        /\ p.coordinates = r.coordinates[j]
        /\ \A m \in 1..Len(r.times) : Abs(r.times[j] - T) <= Abs(r.times[m] - T)

(* C20: for every interval time T the loop has gone through and every route
   that is ongoing at T (first < T < last), the file for T holds exactly one
   point tagged ongoing of the route, and it is a point of the route whose
   timestamp is closest to T. *)
C20_OngoingPoint ==
    \A T \in generated :
        \A k \in 1..Len(routes) :
            (routes[k].times[1] < T /\ T < routes[k].times[Len(routes[k].times)]) =>
                \E f \in time_intervals :
                    /\ f.time = T
                    /\ Cardinality(OngoingOf(routes[k], f.features)) = 1
                    /\ \A i \in OngoingOf(routes[k], f.features) :
                          ClosestTo(f.features[i], routes[k], T)

(* the tasks of the chunk that have not returned or raised yet *)
Unfinished == {t \in Trips : task[t] \in {"pending", "requesting", "sleeping"}}

(* C21: a step taken while a fetch is outstanding leaves the checkpoint file
   as it is, and the accumulated list as well as long as the process lives;
   the list is extended only when every task of the chunk has finished, and
   the checkpoint file is written or removed only when no task exists. *)
C21_FeaturesFrame ==
    [][/\ Outstanding # {} =>
             /\ partial' = partial
             /\ pc' # "stopped" => features' = features
       /\ (features' # features /\ pc' # "stopped") =>
             /\ Unfinished = {}
             /\ pc \in {"start", "gather"}
       /\ partial' # partial =>
             /\ \A t \in Trips : task[t] = "none"
             /\ pc \in {"open_partial", "dump_partial", "cleanup"}]_vars

(* a task sleeps for its backoff while another task of the chunk has returned
   its Feature: the Feature is neither in the accumulated list nor in the
   checkpoint file, which holds the list as it was loaded *)
C21_Witness ==
    /\ pc = "gather"
    /\ partial = Written(features)
    /\ features # <<>>
    /\ \E t, u \in Trips :
          /\ task[t] = "sleeping"
          /\ results[u] # <<>>
          /\ u \notin TripIds(features)
====
